---------------------------- MODULE Spec2Model ----------------------------
(***************************************************************************)
(* Model of the CodeRunner exercise corpus: a set of independent pure      *)
(* functions (one per source file) and the test harness that invokes each  *)
(* of them on one input tuple at a time and records the returned value.    *)
(*                                                                         *)
(* C++ vectors and strings are sequences; C++ index k is sequence index    *)
(* k+1.  A string is a sequence of one-character strings.  int is the      *)
(* 32-bit two's complement type: signed overflow is undefined behaviour,   *)
(* and a build either wraps modulo 2^32 or traps (-ftrapv / sanitizer).    *)
(***************************************************************************)
EXTENDS Integers, Sequences, FiniteSets

VARIABLES pc, call, ret, status, result, board, n

vars == <<pc, call, ret, status, result, board, n>>

-----------------------------------------------------------------------------
(* Bounds of the model *)

MaxLen == 3
MaxVal == 2
MaxStr == 4
MaxFibN == 20
MaxNeg == 3
MaxRev == 130
MaxWord == 3
MaxBase == 4
MaxExp == 5
MaxMod == 4
MaxQueens == 5
NumNodes == 3
MaxEdges == 2
MaxWeight == 1

-----------------------------------------------------------------------------
(* 32-bit int *)

INT_MAX == 2147483647
INT_MIN == -INT_MAX - 1

(* a + b overflows the int range (computed without leaving it) *)
AddOverflows(a, b) ==
    \/ (a > 0 /\ b > 0 /\ a > INT_MAX - b)
    \/ (a < 0 /\ b < 0 /\ a < INT_MIN - b)

(* a + b as a wrapping build computes it: the sum modulo 2^32 *)
WrapAdd(a, b) ==
    IF a > 0 /\ b > 0 /\ a > INT_MAX - b
      THEN ((((a - INT_MAX) - 1) + b) - INT_MAX) - 1
      ELSE IF a < 0 /\ b < 0 /\ a < INT_MIN - b
             THEN ((((a + INT_MAX) + 1) + b) + INT_MAX) + 1
             ELSE a + b

MaxOf(a, b) == IF a < b THEN b ELSE a
MinOf(a, b) == IF b < a THEN b ELSE a

-----------------------------------------------------------------------------
(* medium/cpp/M02_mergeSortedArrays.cpp *)

RECURSIVE mergeTail(_, _, _)
mergeTail(nums, k, res) ==
    IF k < Len(nums)
      THEN mergeTail(nums, k + 1, Append(res, nums[k + 1]))
      ELSE res

mergeTakeLarger(a, b) == a >= b

mergeTakeFirst(a, b) == a <= b

RECURSIVE mergeLoop(_, _, _, _, _)
mergeLoop(nums1, nums2, i, j, res) ==
    IF i < Len(nums1) /\ j < Len(nums2)
      THEN IF mergeTakeFirst(nums1[i + 1], nums2[j + 1])
             THEN mergeLoop(nums1, nums2, i + 1, j, Append(res, nums1[i + 1]))
             ELSE mergeLoop(nums1, nums2, i, j + 1, Append(res, nums2[j + 1]))
      ELSE mergeTail(nums2, j, mergeTail(nums1, i, res))

mergeSortedArrays(nums1, nums2) == mergeLoop(nums1, nums2, 0, 0, <<>>)

-----------------------------------------------------------------------------
(* medium/cpp/M04_isValidParentheses.cpp *)

Openers == {"(", "{", "["}
Closers == {")", "}", "]"}
BracketChars == Openers \cup Closers

parenMismatchRoundOnly(c, top) == c = ")" /\ top # "("

parenMismatch(c, top) ==
    \/ (c = ")" /\ top # "(")
    \/ (c = "}" /\ top # "{")
    \/ (c = "]" /\ top # "[")

RECURSIVE parenLoop(_, _, _)
parenLoop(s, k, stk) ==
    IF k > Len(s)
      THEN stk = <<>>
      ELSE IF s[k] \in Openers
             THEN parenLoop(s, k + 1, Append(stk, s[k]))
             ELSE IF stk = <<>>
                    THEN FALSE
                    ELSE IF parenMismatch(s[k], stk[Len(stk)])
                           THEN FALSE
                           ELSE parenLoop(s, k + 1, SubSeq(stk, 1, Len(stk) - 1))

isValidParentheses(s) == parenLoop(s, 1, <<>>)

-----------------------------------------------------------------------------
(* The three fibonacci variants.  A result is [threw, val]. *)

Returned(v) == [threw |-> FALSE, val |-> v]
Thrown == [threw |-> TRUE, val |-> 0]

RECURSIVE fibIterLoop(_, _, _, _)
fibIterLoop(i, limit, a, b) ==
    IF i <= limit
      THEN fibIterLoop(i + 1, limit, b, WrapAdd(a, b))
      ELSE b

(* templates/template.cpp: iterative, no guard for negative positions *)
fibonacciTemplate(position) ==
    IF position = 0 THEN Returned(0)
    ELSE IF position = 1 THEN Returned(1)
    ELSE Returned(fibIterLoop(2, position, 0, 1))

(* template/cpp-template.cpp.  Line 6 reads "namespace std;": a declaration *)
(* that opens with namespace, has no using before it and no body after it.  *)
RecursiveLine6 ==
    [keyword |-> "namespace", using |-> FALSE, name |-> "std", body |-> FALSE]

(* C++ knows "using namespace N;" and "namespace N { ... }", nothing else   *)
NamespaceLineWellFormed(decl) == decl.using \/ decl.body

(* line 9 names invalid_argument without std::, which finds it only under  *)
(* a using-directive for std                                                *)
InvalidArgumentVisible(decl) == decl.using /\ decl.name = "std"

(* whether a program is built from the file *)
RecursiveFileBuilds ==
    /\ NamespaceLineWellFormed(RecursiveLine6)
    /\ InvalidArgumentVisible(RecursiveLine6)

(* lines 8-13: recursive, throws invalid_argument on n < 0 *)
RECURSIVE fibonacciRecursive(_)
fibonacciRecursive(m) ==
    IF m < 0 THEN Thrown
    ELSE IF m = 0 THEN Returned(0)
    ELSE IF m = 1 THEN Returned(1)
    ELSE Returned(WrapAdd(fibonacciRecursive(m - 1).val,
                          fibonacciRecursive(m - 2).val))

(* easy/cpp/exercise03_fibonacci.cpp: iterative, n <= 0 gives 0 *)
fibonacciExercise03(m) ==
    IF m <= 0 THEN Returned(0)
    ELSE IF m = 1 THEN Returned(1)
    ELSE Returned(fibIterLoop(2, m, 0, 1))

-----------------------------------------------------------------------------
(* easy/cpp/exercise06_reverseInt.cpp.  A result is [val, ub]: the value a *)
(* wrapping build returns, and whether a signed overflow happened.         *)

Negate(x) == IF x = INT_MIN THEN INT_MIN ELSE -x

TimesTen(x) ==
    LET x2 == WrapAdd(x, x)
        x4 == WrapAdd(x2, x2)
        x8 == WrapAdd(x4, x4)
    IN  WrapAdd(x8, x2)

TimesTenOverflows(x) == x > INT_MAX \div 10 \/ x < -(INT_MAX \div 10)

(* n / 10 and n % 10 as C computes them: the quotient truncates toward 0 *)
DivTen(x) == IF x >= 0 THEN x \div 10 ELSE -(((-(x + 10)) \div 10) + 1)

RemTen(x) == x - 10 * DivTen(x)

(* one iteration of the while loop on st = [x, rev, ub] *)
reverseStep(st) ==
    [x   |-> DivTen(st.x),
     rev |-> WrapAdd(TimesTen(st.rev), RemTen(st.x)),
     ub  |-> \/ st.ub
             \/ TimesTenOverflows(st.rev)
             \/ AddOverflows(TimesTen(st.rev), RemTen(st.x))]

RECURSIVE reverseLoop(_)
reverseLoop(st) == IF st.x > 0 THEN reverseLoop(reverseStep(st)) ELSE st

(* the loop as a build runs it that takes n > 0 for granted after n = -n   *)
(* and leaves the loop only when no digit is left                           *)
RECURSIVE reverseLoopNonZero(_)
reverseLoopNonZero(st) ==
    IF st.x # 0 THEN reverseLoopNonZero(reverseStep(st)) ELSE st

reverseSignDropped(sign, rev) == rev

reverseSigned(sign, rev) == IF sign = -1 THEN Negate(rev) ELSE rev

reverseInt(x) ==
    LET sign == IF x < 0 THEN -1 ELSE 1
        absx == IF x < 0 THEN Negate(x) ELSE x
        loop == reverseLoop([x |-> absx, rev |-> 0, ub |-> x = INT_MIN])
    IN  [val |-> reverseSigned(sign, loop.rev),
         ub  |-> loop.ub \/ (sign = -1 /\ loop.rev = INT_MIN)]

(* n = -n overflows for n = INT_MIN, and the builds differ in what the loop *)
(* then does: it tests the wrapped value and does not iterate; it iterates  *)
(* once before the first test; it runs on the negative value until no digit *)
(* is left; or it does so on the magnitude 2^31, whose digits have the      *)
(* opposite sign.                                                            *)
reverseNegateOverflow(x) ==
    LET start  == [x |-> Negate(x), rev |-> 0, ub |-> TRUE]
        tested == reverseLoop(start)
        once   == reverseLoop(reverseStep(start))
        digits == reverseLoopNonZero(start)
    IN  { reverseSigned(-1, tested.rev),
          reverseSigned(-1, once.rev),
          reverseSigned(-1, digits.rev),
          reverseSigned(-1, Negate(digits.rev)) }

(* the values reverseInt(x) returns, over the builds *)
reverseIntOutcomes(x) ==
    IF x = INT_MIN THEN reverseNegateOverflow(x) ELSE {reverseInt(x).val}

-----------------------------------------------------------------------------
(* hard/H06_editDistance.cpp *)

Min3(a, b, c) == MinOf(a, MinOf(b, c))

editBaseZero(k) == 0

editBase(k) == k

editCell(dp, i, j, word1, word2) ==
    IF word1[i] = word2[j]
      THEN dp[i - 1][j - 1]
      ELSE Min3(dp[i - 1][j] + 1, dp[i][j - 1] + 1, dp[i - 1][j - 1] + 1)

RECURSIVE editFill(_, _, _, _, _)
editFill(dp, i, j, word1, word2) ==
    IF i > Len(word1) THEN dp
    ELSE IF j > Len(word2) THEN editFill(dp, i + 1, 1, word1, word2)
    ELSE editFill([dp EXCEPT ![i][j] = editCell(dp, i, j, word1, word2)],
                  i, j + 1, word1, word2)

minDistance(word1, word2) ==
    LET m    == Len(word1)
        k    == Len(word2)
        dp0  == [i \in 0..m |-> [j \in 0..k |->
                    IF j = 0 THEN editBase(i)
                    ELSE IF i = 0 THEN editBase(j) ELSE 0]]
    IN  editFill(dp0, 1, 1, word1, word2)[m][k]

-----------------------------------------------------------------------------
(* hard/cpp/H03_modpow.cpp (int64_t; the bounded inputs keep every product *)
(* far below 2^63, so no overflow is involved)                             *)

RECURSIVE modpowLoop(_, _, _, _)
modpowLoop(res, base, exp, mod) ==
    IF exp > 0
      THEN modpowLoop(IF exp % 2 = 1 THEN (res * base) % mod ELSE res,
                      (base * base) % mod,
                      exp \div 2,
                      mod)
      ELSE res

modpow(base, exp, mod) == modpowLoop(1, base % mod, exp, mod)

-----------------------------------------------------------------------------
(* hard/H03_medianOfTwoSortedArrays.cpp.  The double result is a multiple  *)
(* of 0.5 and is written [whole, half] for whole + half * 0.5.  A result   *)
(* also records whether it came from the fall-through return and whether a *)
(* signed overflow happened.                                               *)

DoubleOfInt(x) == [whole |-> x, half |-> 0]

(* x / 2.0 for an int x *)
HalfOfInt(x) == [whole |-> x \div 2, half |-> x % 2]

RECURSIVE medianLoop(_, _, _, _)
medianLoop(nums1, nums2, left, right) ==
    LET m     == Len(nums1)
        k     == Len(nums2)
        total == m + k
        half  == (total + 1) \div 2
        i     == left + (right - left) \div 2
        j     == half - i
        nums1_left  == IF i > 0 THEN nums1[i] ELSE INT_MIN
        nums1_right == IF i < m THEN nums1[i + 1] ELSE INT_MAX
        nums2_left  == IF j > 0 THEN nums2[j] ELSE INT_MIN
        nums2_right == IF j < k THEN nums2[j + 1] ELSE INT_MAX
        lo == MaxOf(nums1_left, nums2_left)
        hi == MinOf(nums1_right, nums2_right)
    IN  IF left <= right
          THEN IF nums1_left <= nums2_right /\ nums2_left <= nums1_right
                 THEN IF total % 2 = 1
                        THEN [value |-> DoubleOfInt(lo),
                              fallthrough |-> FALSE, ub |-> FALSE]
                        ELSE [value |-> HalfOfInt(WrapAdd(lo, hi)),
                              fallthrough |-> FALSE,
                              ub |-> AddOverflows(lo, hi)]
                 ELSE IF nums1_left > nums2_right
                        THEN medianLoop(nums1, nums2, left, i - 1)
                        ELSE medianLoop(nums1, nums2, i + 1, right)
          ELSE [value |-> DoubleOfInt(0), fallthrough |-> TRUE, ub |-> FALSE]

findMedianSortedArrays(nums1, nums2) ==
    IF Len(nums1) > Len(nums2)
      THEN medianLoop(nums2, nums1, 0, Len(nums2))
      ELSE medianLoop(nums1, nums2, 0, Len(nums1))

-----------------------------------------------------------------------------
(* hard/H05_nQueens.cpp: class Solution.  The recursion threads the two    *)
(* members it mutates, st = [board, result]; rows and columns are 0-based. *)
(* solveRow is the private solveNQueens(int row) of line 29, solveNQueens   *)
(* the public solveNQueens(int n) of line 45.                               *)

(* the member functions the class declares *)
SolutionMembers ==
    { [name |-> "isSafe", params |-> <<"int", "int">>,
       returns |-> "bool", line |-> 10],
      [name |-> "solveNQueens", params |-> <<"int">>,
       returns |-> "void", line |-> 29],
      [name |-> "solveNQueens", params |-> <<"int">>,
       returns |-> "vector<vector<string>>", line |-> 45] }

(* member functions of one name can be overloaded only when their parameter *)
(* lists differ; the return type does not count.  A class that breaks the  *)
(* rule is ill-formed and no program is built from it.                      *)
Overloadable(members) ==
    \A f, g \in members :
        (f.name = g.name /\ f.params = g.params) => f = g

RECURSIVE Repeat(_, _)
Repeat(v, count) == IF count <= 0 THEN <<>> ELSE <<v>> \o Repeat(v, count - 1)

EmptyBoard(size) == Repeat(Repeat(".", size), size)

isSafe(b, size, row, col) ==
    /\ ~ \E i \in 0..(row - 1) : b[i + 1][col + 1] = "Q"
    /\ ~ \E k \in 1..row :
           /\ col - k >= 0
           /\ b[row - k + 1][col - k + 1] = "Q"
    /\ ~ \E k \in 1..row :
           /\ col + k < size
           /\ b[row - k + 1][col + k + 1] = "Q"

RECURSIVE solveRow(_, _, _)
RECURSIVE solveCols(_, _, _, _)
solveRow(st, size, row) ==
    IF row = size
      THEN [st EXCEPT !.result = Append(@, st.board)]
      ELSE solveCols(st, size, row, 0)

solveCols(st, size, row, col) ==
    IF col < size
      THEN IF isSafe(st.board, size, row, col)
             THEN LET placed == [st EXCEPT !.board[row + 1][col + 1] = "Q"]
                      back   == solveRow(placed, size, row + 1)
                      undone == [back EXCEPT !.board[row + 1][col + 1] = "."]
                  IN  solveCols(undone, size, row, col + 1)
             ELSE solveCols(st, size, row, col + 1)
      ELSE st

solveNQueens(size) ==
    solveRow([board |-> EmptyBoard(size), result |-> <<>>], size, 0)

-----------------------------------------------------------------------------
(* hard/cpp/H01_dijkstra.cpp.  graph[u + 1] is the sequence of <<v, w>>    *)
(* pairs of node u; dist[v + 1] is the distance of node v; pq is the       *)
(* content of the priority queue, a sequence of <<cost, node>> pairs.      *)

PairLess(p, q) == p[1] < q[1] \/ (p[1] = q[1] /\ p[2] < q[2])

(* index of the entry priority_queue<..., greater<>>::top() returns *)
TopIndex(pq) ==
    CHOOSE k \in 1..Len(pq) :
        \A l \in 1..Len(pq) : l = k \/ PairLess(pq[k], pq[l]) \/ (pq[k] = pq[l] /\ k < l)

RemoveAt(q, k) == SubSeq(q, 1, k - 1) \o SubSeq(q, k + 1, Len(q))

RECURSIVE relaxEdges(_, _, _, _)
relaxEdges(edges, u, k, st) ==
    IF k > Len(edges)
      THEN st
      ELSE LET v    == edges[k][1]
               w    == edges[k][2]
               cand == WrapAdd(st.dist[u + 1], w)
           IN  IF cand < st.dist[v + 1]
                 THEN relaxEdges(edges, u, k + 1,
                        [dist |-> [st.dist EXCEPT ![v + 1] = cand],
                         pq   |-> Append(st.pq, <<cand, v>>),
                         ub   |-> st.ub \/ AddOverflows(st.dist[u + 1], w)])
                 ELSE relaxEdges(edges, u, k + 1,
                        [st EXCEPT !.ub = @ \/ AddOverflows(st.dist[u + 1], w)])

RECURSIVE dijkstraLoop(_, _)
dijkstraLoop(graph, st) ==
    IF st.pq = <<>>
      THEN st
      ELSE LET k      == TopIndex(st.pq)
               cost   == st.pq[k][1]
               u      == st.pq[k][2]
               popped == [st EXCEPT !.pq = RemoveAt(st.pq, k)]
           IN  IF cost > st.dist[u + 1]
                 THEN dijkstraLoop(graph, popped)
                 ELSE dijkstraLoop(graph, relaxEdges(graph[u + 1], u, 1, popped))

dijkstra(graph, start) ==
    LET size  == Len(graph)
        dist0 == [v \in 1..size |-> IF v = start + 1 THEN 0 ELSE INT_MAX]
    IN  dijkstraLoop(graph, [dist |-> dist0, pq |-> <<<<0, start>>>>, ub |-> FALSE])

-----------------------------------------------------------------------------
(* Inputs the harness feeds to the exercises *)

SeqsUpTo(S, k) == UNION {[1..m -> S] : m \in 0..k}

IsSorted(s) == \A i \in 1..(Len(s) - 1) : s[i] <= s[i + 1]

Vals == (1..MaxVal) \cup {INT_MAX}

SortedSeqs == {s \in SeqsUpTo(Vals, MaxLen) : IsSorted(s)}

AllKinds == <<"(", ")", "[", "]", "{", "}">>

BracketStrings == SeqsUpTo(BracketChars, MaxStr) \cup {AllKinds}

FibInputs == (-MaxNeg)..MaxFibN

(* small numbers, and ten-digit ones: two whose reversal fits in an int *)
(* and four whose reversal (or negation) does not                        *)
RevInputs ==
    ((-MaxRev)..MaxRev)
      \cup {INT_MAX, INT_MIN, 1000000009, -1000000009, 2147447412, -2147447412}

Horse == <<"h", "o", "r", "s", "e">>
Ros == <<"r", "o", "s">>

Words == SeqsUpTo({"a", "b"}, MaxWord)

WordPairs == (Words \X Words) \cup {<<Horse, Ros>>, <<<<>>, Horse>>, <<Horse, Horse>>}

Nodes == 0..(NumNodes - 1)

Weights == (0..MaxWeight) \cup {INT_MAX}

CandidateEdges == {e \in Nodes \X Nodes \X Weights : e[1] # e[2]}

RECURSIVE SetsUpTo(_, _)
SetsUpTo(S, k) ==
    IF k = 0
      THEN {{}}
      ELSE LET smaller == SetsUpTo(S, k - 1)
           IN  smaller \cup {p \cup {e} : p \in smaller, e \in S}

RECURSIVE SeqOfPairs(_)
SeqOfPairs(S) ==
    IF S = {}
      THEN <<>>
      ELSE LET first == CHOOSE p \in S : \A q \in S : p = q \/ PairLess(p, q)
           IN  <<first>> \o SeqOfPairs(S \ {first})

(* the adjacency list of an edge set: node u lists its <<v, w>> by v, then w *)
AdjacencyList(E) ==
    [u \in 1..NumNodes |-> SeqOfPairs({<<e[2], e[3]>> : e \in {x \in E : x[1] = u - 1}})]

Graphs == {AdjacencyList(E) : E \in SetsUpTo(CandidateEdges, MaxEdges)}

-----------------------------------------------------------------------------
(* The harness: one call at a time, each on fresh inputs.  call is the     *)
(* function called with its arguments under their parameter names, ret the *)
(* returned value under its C++ type.  The Solution object of the N-Queens *)
(* exercise lives as long as its test case, so solveNQueens can be called  *)
(* on it again before the next case starts.  Its member n is uninitialised *)
(* at construction; it is written before it is ever read, and starts as 0. *)

NoCall == [fn |-> "none"]
NoValue == [none |-> TRUE]

Init ==
    /\ pc = "idle"
    /\ call = NoCall
    /\ ret = NoValue
    /\ status = "none"
    /\ result = <<>>
    /\ board = <<>>
    /\ n = 0

(* the call ends: it returns value, or the build traps on a signed overflow *)
Finish(called, value, overflowed, traps) ==
    /\ pc' = "done"
    /\ call' = called
    /\ status' = IF overflowed /\ traps THEN "trapped" ELSE "returned"
    /\ ret' = IF overflowed /\ traps THEN NoValue ELSE value
    /\ UNCHANGED <<result, board, n>>

(* the file of the called function is rejected by the compiler: no program *)
(* is built and the call yields nothing                                     *)
IllFormed(called) ==
    /\ pc' = "done"
    /\ call' = called
    /\ status' = "ill-formed"
    /\ ret' = NoValue
    /\ UNCHANGED <<result, board, n>>

(* the call ends by a return or by a thrown exception *)
FinishOrThrow(called, outcome) ==
    /\ pc' = "done"
    /\ call' = called
    /\ status' = IF outcome.threw THEN "threw" ELSE "returned"
    /\ ret' = IF outcome.threw THEN NoValue ELSE [int |-> outcome.val]
    /\ UNCHANGED <<result, board, n>>

CallMergeSortedArrays ==
    /\ pc = "idle"
    /\ \E nums1 \in SortedSeqs, nums2 \in SortedSeqs :
          Finish([fn |-> "mergeSortedArrays", nums1 |-> nums1, nums2 |-> nums2],
                 [ints |-> mergeSortedArrays(nums1, nums2)], FALSE, FALSE)

CallIsValidParentheses ==
    /\ pc = "idle"
    /\ \E s \in BracketStrings :
          Finish([fn |-> "isValidParentheses", s |-> s],
                 [bool |-> isValidParentheses(s)], FALSE, FALSE)

CallFibonacciTemplate ==
    /\ pc = "idle"
    /\ \E position \in FibInputs :
          FinishOrThrow([fn |-> "fibonacciTemplate", n |-> position],
                        fibonacciTemplate(position))

CallFibonacciRecursive ==
    /\ pc = "idle"
    /\ \E m \in FibInputs :
          IF RecursiveFileBuilds
            THEN FinishOrThrow([fn |-> "fibonacciRecursive", n |-> m],
                               fibonacciRecursive(m))
            ELSE IllFormed([fn |-> "fibonacciRecursive", n |-> m])

CallFibonacciExercise03 ==
    /\ pc = "idle"
    /\ \E m \in FibInputs :
          FinishOrThrow([fn |-> "fibonacciExercise03", n |-> m], fibonacciExercise03(m))

CallReverseInt ==
    /\ pc = "idle"
    /\ \E m \in RevInputs, traps \in BOOLEAN :
          \E reversed \in reverseIntOutcomes(m) :
              Finish([fn |-> "reverseInt", n |-> m],
                     [int |-> reversed], reverseInt(m).ub, traps)

CallMinDistance ==
    /\ pc = "idle"
    /\ \E p \in WordPairs :
          Finish([fn |-> "minDistance", word1 |-> p[1], word2 |-> p[2]],
                 [int |-> minDistance(p[1], p[2])], FALSE, FALSE)

CallModpow ==
    /\ pc = "idle"
    /\ \E base \in 0..MaxBase, exp \in 0..MaxExp, mod \in 1..MaxMod :
          Finish([fn |-> "modpow", base |-> base, exp |-> exp, mod |-> mod],
                 [int |-> modpow(base, exp, mod)], FALSE, FALSE)

CallFindMedianSortedArrays ==
    /\ pc = "idle"
    /\ \E nums1 \in SortedSeqs, nums2 \in SortedSeqs, traps \in BOOLEAN :
          LET median == findMedianSortedArrays(nums1, nums2)
          IN  Finish([fn |-> "findMedianSortedArrays", nums1 |-> nums1, nums2 |-> nums2],
                     [double |-> median.value, fallthrough |-> median.fallthrough],
                     median.ub, traps)

CallDijkstra ==
    /\ pc = "idle"
    /\ \E graph \in Graphs, start \in Nodes, traps \in BOOLEAN :
          LET final == dijkstra(graph, start)
          IN  Finish([fn |-> "dijkstra", graph |-> graph, start |-> start],
                     [ints |-> final.dist], final.ub, traps)

CallSolveNQueens ==
    /\ pc = "idle" \/ (pc = "done" /\ call.fn = "solveNQueens")
    /\ \E size \in 0..MaxQueens :
          IF Overloadable(SolutionMembers)
            THEN LET st == solveNQueens(size)
                 IN  /\ pc' = "done"
                     /\ call' = [fn |-> "solveNQueens", n |-> size]
                     /\ status' = "returned"
                     /\ n' = size
                     /\ board' = st.board
                     /\ result' = st.result
                     /\ ret' = [boards |-> st.result]
            ELSE IllFormed([fn |-> "solveNQueens", n |-> size])

(* the harness records the outcome and moves to the next case *)
NextCase ==
    /\ pc = "done"
    /\ pc' = "idle"
    /\ call' = NoCall
    /\ ret' = NoValue
    /\ status' = "none"
    /\ result' = <<>>
    /\ board' = <<>>
    /\ n' = 0

Next ==
    \/ CallMergeSortedArrays
    \/ CallIsValidParentheses
    \/ CallFibonacciTemplate
    \/ CallFibonacciRecursive
    \/ CallFibonacciExercise03
    \/ CallReverseInt
    \/ CallMinDistance
    \/ CallModpow
    \/ CallFindMedianSortedArrays
    \/ CallDijkstra
    \/ CallSolveNQueens
    \/ NextCase

Spec == Init /\ [][Next]_vars

-----------------------------------------------------------------------------
(* Reference notions the properties are stated with *)

Done(fn) == pc = "done" /\ call.fn = fn

RECURSIVE Count(_, _)
Count(s, v) ==
    IF s = <<>> THEN 0
    ELSE (IF s[1] = v THEN 1 ELSE 0) + Count(SubSeq(s, 2, Len(s)), v)

Range(s) == {s[i] : i \in 1..Len(s)}

Closer(c) == IF c = "(" THEN ")" ELSE IF c = "[" THEN "]" ELSE "}"

(* s is a correctly nested bracket string *)
RECURSIVE Balanced(_)
Balanced(s) ==
    \/ s = <<>>
    \/ /\ Len(s) >= 2
       /\ s[1] \in Openers
       /\ \E k \in 2..Len(s) :
             /\ s[k] = Closer(s[1])
             /\ Balanced(SubSeq(s, 2, k - 1))
             /\ Balanced(SubSeq(s, k + 1, Len(s)))

RECURSIVE FibDef(_)
FibDef(k) == IF k = 0 THEN 0 ELSE IF k = 1 THEN 1 ELSE FibDef(k - 1) + FibDef(k - 2)

FibVariants == {"fibonacciTemplate", "fibonacciRecursive", "fibonacciExercise03"}

Abs(x) == IF x < 0 THEN -x ELSE x
Sign(x) == IF x < 0 THEN -1 ELSE IF x > 0 THEN 1 ELSE 0
NoTrailingZero(x) == x # INT_MIN /\ Abs(x) % 10 # 0

RECURSIVE Pow(_, _)
Pow(b, e) == IF e = 0 THEN 1 ELSE b * Pow(b, e - 1)

(* the k-th smallest element (k = 1, 2, ...) of the elements of a and b *)
Kth(a, b, k) ==
    CHOOSE v \in Range(a) \cup Range(b) :
        LET below   == Cardinality({i \in 1..Len(a) : a[i] < v})
                         + Cardinality({i \in 1..Len(b) : b[i] < v})
            notover == Cardinality({i \in 1..Len(a) : a[i] <= v})
                         + Cardinality({i \in 1..Len(b) : b[i] <= v})
        IN  below < k /\ k <= notover

(* the median of the elements of a and b, as a multiple of 0.5 *)
MedianDef(a, b) ==
    LET total == Len(a) + Len(b)
        lo    == Kth(a, b, (total + 1) \div 2)
        hi    == Kth(a, b, total \div 2 + 1)
        odd   == (lo % 2) + (hi % 2)
    IN  [whole |-> (lo \div 2) + (hi \div 2) + (odd \div 2),
         half  |-> odd % 2]

(* Shortest distances: Unreachable for no path, Beyond for a minimum that *)
(* is larger than INT_MAX, the minimum itself otherwise.                  *)
Unreachable == INT_MIN
Beyond == INT_MIN + 1

PathAdd(d, w) ==
    IF d = Unreachable THEN Unreachable
    ELSE IF d = Beyond THEN Beyond
    ELSE IF d > INT_MAX - w THEN Beyond
    ELSE d + w

(* the least of a set of path lengths *)
PathMin(C) ==
    LET finite == {d \in C : d >= 0}
    IN  IF finite # {} THEN CHOOSE d \in finite : \A e \in finite : d <= e
        ELSE IF Beyond \in C THEN Beyond
        ELSE Unreachable

(* one more edge allowed: the best of staying at v and of every edge into v *)
PathStep(graph, d, v) ==
    PathMin({d[v]} \cup
            {PathAdd(d[u], graph[u][k][2]) :
                <<u, k>> \in {p \in (1..Len(graph)) \X (1..MaxEdges) :
                                /\ p[2] <= Len(graph[p[1]])
                                /\ graph[p[1]][p[2]][1] = v - 1}})

RECURSIVE ShortestRounds(_, _, _)
ShortestRounds(graph, d, rounds) ==
    IF rounds = 0
      THEN d
      ELSE ShortestRounds(graph,
                          [v \in 1..Len(graph) |-> PathStep(graph, d, v)],
                          rounds - 1)

ShortestDef(graph, start) ==
    ShortestRounds(graph,
                   [v \in 1..Len(graph) |-> IF v = start + 1 THEN 0 ELSE Unreachable],
                   Len(graph))

(* a board of the given size with one queen in every row *)
BoardOf(cols, size) ==
    [r \in 1..size |-> [c \in 1..size |-> IF cols[r] = c THEN "Q" ELSE "."]]

NonAttacking(cols, size) ==
    \A r1 \in 1..size : \A r2 \in (r1 + 1)..size :
        /\ cols[r1] # cols[r2]
        /\ cols[r1] - cols[r2] # r1 - r2
        /\ cols[r1] - cols[r2] # r2 - r1

QueensDef(size) ==
    {BoardOf(cols, size) : cols \in {f \in [1..size -> 1..size] : NonAttacking(f, size)}}

-----------------------------------------------------------------------------
(* Properties *)

(* C1: mergeSortedArrays of two ascending sequences returns a non-decreasing *)
(* sequence with the length and the multiset of elements of nums1 ++ nums2.  *)
C1_MergeSortedPermutation ==
    Done("mergeSortedArrays") =>
        /\ IsSorted(ret.ints)
        /\ Len(ret.ints) = Len(call.nums1) + Len(call.nums2)
        /\ \A v \in Vals :
              Count(ret.ints, v) = Count(call.nums1, v) + Count(call.nums2, v)

C1_Witness ==
    /\ Done("mergeSortedArrays")
    /\ call.nums1 = <<1, 2, INT_MAX>>
    /\ call.nums2 = <<1, 1, 2>>
    /\ ret.ints = <<1, 1, 1, 2, 2, INT_MAX>>

(* C2: on a string of bracket characters isValidParentheses returns true    *)
(* exactly when the string is correctly nested; "" and "()[]{}" are valid,  *)
(* "(()" is not.                                                            *)
C2_ValidIffNested ==
    Done("isValidParentheses") =>
        /\ ret.bool = Balanced(call.s)
        /\ call.s = <<>> => ret.bool = TRUE
        /\ call.s = <<"(", "(", ")">> => ret.bool = FALSE
        /\ call.s = AllKinds => ret.bool = TRUE

C2_Witness ==
    /\ Done("isValidParentheses")
    /\ call.s = <<"{", "[", "]", "}">>
    /\ ret.bool = TRUE

(* C3: with non-negative weights and a valid start, dijkstra returns dist   *)
(* with dist[start] = 0, the minimum path weight for every reachable node   *)
(* and INT_MAX for every unreachable node.  (A node whose minimum exceeds   *)
(* INT_MAX is left out: no int can hold its distance.)                      *)
C3_ShortestDistances ==
    Done("dijkstra") =>
        /\ status = "returned"
        /\ ret.ints[call.start + 1] = 0
        /\ \A v \in 1..Len(call.graph) :
              LET d == ShortestDef(call.graph, call.start)[v]
              IN  /\ d >= 0 => ret.ints[v] = d
                  /\ d = Unreachable => ret.ints[v] = INT_MAX

(* C4: findMedianSortedArrays returns the median of the merged sequence,   *)
(* from inside the loop, whatever the order and lengths of the operands.   *)
C4_Median ==
    (Done("findMedianSortedArrays") /\ Len(call.nums1) + Len(call.nums2) > 0) =>
        /\ status = "returned"
        /\ ~ ret.fallthrough
        /\ ret.double = MedianDef(call.nums1, call.nums2)

(* C5: for n >= 0 each of the three fibonacci variants returns the n-th     *)
(* number of the sequence defined by F(0) = 0, F(1) = 1, F(n) = F(n-1) +    *)
(* F(n-2); fibonacci(10) = 55 and fibonacci(20) = 6765.                     *)
C5_FibonacciVariantsAgree ==
    (pc = "done" /\ call.fn \in FibVariants /\ call.n >= 0) =>
        /\ status = "returned"
        /\ ret.int = FibDef(call.n)
        /\ call.n = 10 => ret.int = 55
        /\ call.n = 20 => ret.int = 6765

(* C6: on a negative input every fibonacci variant returns 0 or signals an *)
(* error.                                                                   *)
C6_NegativeClampedOrError ==
    (pc = "done" /\ call.fn \in FibVariants /\ call.n < 0) =>
        \/ status = "threw"
        \/ (status = "returned" /\ ret.int = 0)

(* C7: when x has no trailing zero digit and nothing overflows, reversing   *)
(* the reversal of x gives x back and each reversal keeps the sign; a       *)
(* non-zero x with a trailing zero is not recovered (120 -> 21, -120 -> -21)*)
C7_ReverseRoundTrip ==
    (Done("reverseInt") /\ ~ reverseInt(call.n).ub) =>
        /\ status = "returned"
        /\ Sign(ret.int) = Sign(call.n)
        /\ NoTrailingZero(call.n) =>
              /\ ~ reverseInt(ret.int).ub
              /\ reverseInt(ret.int).val = call.n
        /\ (call.n # 0 /\ ~ NoTrailingZero(call.n)) =>
              reverseInt(ret.int).val # call.n
        /\ call.n = 120 => ret.int = 21
        /\ call.n = -120 => ret.int = -21

C7_Witness ==
    /\ Done("reverseInt")
    /\ call.n = -123
    /\ ret.int = -321
    /\ reverseInt(ret.int).val = -123

(* C8: minDistance("", s) = length(s), minDistance(s, s) = 0 and           *)
(* minDistance("horse", "ros") = 3.                                         *)
C8_EditDistanceLaws ==
    Done("minDistance") =>
        /\ call.word1 = <<>> => ret.int = Len(call.word2)
        /\ call.word1 = call.word2 => ret.int = 0
        /\ (call.word1 = Horse /\ call.word2 = Ros) => ret.int = 3

C8_Witness ==
    /\ Done("minDistance")
    /\ call.word1 = Horse
    /\ call.word2 = Ros
    /\ ret.int = 3

(* C9: for base >= 0, exp >= 0 and mod >= 1 modpow returns base^exp modulo *)
(* mod, a value in 0 .. mod-1, also when exp = 0 and when mod = 1.          *)
C9_ModpowInRange ==
    Done("modpow") =>
        /\ ret.int = Pow(call.base, call.exp) % call.mod
        /\ ret.int \in 0..(call.mod - 1)

(* C10: solveNQueens(n) returns every n-by-n board with one queen per row   *)
(* and no two queens on a column or diagonal, each exactly once; the        *)
(* working board is all '.' again afterwards, and a second call on the same *)
(* object with the same n returns the same result.                          *)
C10_AllBoardsOnce ==
    Done("solveNQueens") =>
        /\ status = "returned"
        /\ Range(ret.boards) = QueensDef(call.n)
        /\ Len(ret.boards) = Cardinality(QueensDef(call.n))
        /\ board = EmptyBoard(call.n)
        /\ result = ret.boards
        /\ n = call.n

C10_SecondCallSame ==
    (Done("solveNQueens") /\ call' = call) => ret' = ret

C10_NQueens == [] C10_AllBoardsOnce /\ [][C10_SecondCallSame]_vars

=============================================================================
